---- MODULE Spec2Model ----
(***************************************************************************)
(* A model of litellm/proxy/auth/saml_handler.py: the SAML 2.0 handler of  *)
(* the proxy (SAMLAuthenticationHandler).  The handler assembles the       *)
(* python3-saml settings from the process environment (os.getenv), hands   *)
(* the protocol work to the SAML library, and maps the attributes of an    *)
(* accepted response onto a CustomOpenID identity.                         *)
(*                                                                         *)
(* Python values: an Optional[str] is a sequence of length at most one     *)
(* (<<>> is None, <<s>> is the string s); a dict is a TLA+ function or     *)
(* record; a list is a sequence.                                           *)
(***************************************************************************)
EXTENDS Integers, Sequences, FiniteSets, TLC

VARIABLES
    env,      \* os.environ: variable name -> Optional[str]
    env0,     \* the environment as it was when the process started (history)
    pc,       \* per task: where its current call stands
    op,       \* per task: the operation it is running
    loc,      \* per task: the locals of the call (what it has read so far)
    res,      \* per task: the outcome of its last finished call
    trace,    \* per task: the external operations its call has performed, in order
    changes,  \* number of environment changes made after startup
    fin,      \* argument of a direct application of a pure part of the handler
    fout      \* its result

vars == <<env, env0, pc, op, loc, res, trace, changes, fin, fout>>

----------------------------------------------------------------------------
(* Python values *)

None == <<>>
Some(s) == <<s>>

\* Python truthiness of an Optional[str]: None and "" are falsy.
Falsy(o) == o = None \/ o = Some("")
Truthy(o) == ~Falsy(o)

\* Python `a or b` on Optional[str].
Or(a, b) == IF Truthy(a) THEN a ELSE b

\* An Optional[str] formatted into an f-string.
Str(o) == IF o = None THEN "None" ELSE o[1]

\* bool(s) of a str.
Bool(s) == s # ""

\* os.getenv("SAML_DEBUG", "false").lower() == "true", as a test on the text
\* read.  str.lower() maps a text to "true" exactly when the text has four
\* characters and they are t, r, u, e in either case: lowering works
\* character by character here, and T and t are the only characters that
\* lower to t (likewise for r, u and e).
LowersToTrue(s) ==
    /\ Len(s) = 4
    /\ SubSeq(s, 1, 1) \in {"t", "T"}
    /\ SubSeq(s, 2, 2) \in {"r", "R"}
    /\ SubSeq(s, 3, 3) \in {"u", "U"}
    /\ SubSeq(s, 4, 4) \in {"e", "E"}

\* The outcome of a call: a returned value or a raised exception.
Return(v) == [kind |-> "return", value |-> v]
Raise(e) == [kind |-> "raise", error |-> e]
NoOutcome == [kind |-> "none"]

\* The locals of a task that has read nothing yet.
NoLocals == [read |-> "nothing"]

\* litellm.proxy._types.ProxyException(message, type, param, code)
ProxyException(message, type, param, code) ==
    [exc |-> "ProxyException", message |-> message, type |-> type,
     param |-> param, code |-> code]

\* ProxyErrorTypes.auth_error
auth_error == "auth_error"

----------------------------------------------------------------------------
(* The process environment *)

RequiredVars ==
    <<"SAML_IDP_ENTITY_ID", "SAML_IDP_SSO_URL", "SAML_IDP_X509_CERT", "PROXY_BASE_URL">>

SettingsVars ==
    {"SAML_ENTITY_ID", "SAML_NAME_ID_FORMAT", "SAML_SP_X509_CERT",
     "SAML_SP_PRIVATE_KEY", "SAML_ACS_PATH", "SAML_DEBUG", "SAML_IDP_SLO_URL"}

AttributeVars ==
    {"SAML_USER_ID_ATTRIBUTE", "SAML_USER_EMAIL_ATTRIBUTE",
     "SAML_USER_FIRST_NAME_ATTRIBUTE", "SAML_USER_LAST_NAME_ATTRIBUTE",
     "SAML_USER_DISPLAY_NAME_ATTRIBUTE"}

EnvVars == {RequiredVars[i] : i \in 1..Len(RequiredVars)} \cup SettingsVars \cup AttributeVars

\* os.getenv(name): None when the variable is unset.
getenv(e, name) == e[name]

\* os.getenv(name, default): the default only when the variable is unset.
getenv_default(e, name, default) == IF e[name] = None THEN default ELSE e[name][1]

----------------------------------------------------------------------------
(* _get_saml_settings *)

\* A test for None alone, which lets an empty value pass.
MissingNoneOnly(o) == o = None

\* The `if not <value>` test of the four required values.
Missing(o) == Falsy(o)

\* The message of the configuration error for a required variable.
MissingMessage(name) ==
    IF name = "PROXY_BASE_URL"
    THEN name \o " not set. Required for SAML SSO redirects"
    ELSE name \o " not set. Set it in .env file"

\* The four checks made in the opposite order.
RequiredCheckReversed(e) ==
    IF Missing(getenv(e, "PROXY_BASE_URL"))
    THEN Some("PROXY_BASE_URL")
    ELSE IF Missing(getenv(e, "SAML_IDP_X509_CERT"))
    THEN Some("SAML_IDP_X509_CERT")
    ELSE IF Missing(getenv(e, "SAML_IDP_SSO_URL"))
    THEN Some("SAML_IDP_SSO_URL")
    ELSE IF Missing(getenv(e, "SAML_IDP_ENTITY_ID"))
    THEN Some("SAML_IDP_ENTITY_ID")
    ELSE None

\* The four checks, in the order of the code; None when all four pass.
RequiredCheck(e) ==
    IF Missing(getenv(e, "SAML_IDP_ENTITY_ID"))
    THEN Some("SAML_IDP_ENTITY_ID")
    ELSE IF Missing(getenv(e, "SAML_IDP_SSO_URL"))
    THEN Some("SAML_IDP_SSO_URL")
    ELSE IF Missing(getenv(e, "SAML_IDP_X509_CERT"))
    THEN Some("SAML_IDP_X509_CERT")
    ELSE IF Missing(getenv(e, "PROXY_BASE_URL"))
    THEN Some("PROXY_BASE_URL")
    ELSE None

\* Signing switched on only when a certificate accompanies the key.
RequestsSignedNeedsCert(e) ==
    Bool(getenv_default(e, "SAML_SP_PRIVATE_KEY", ""))
        /\ Bool(getenv_default(e, "SAML_SP_X509_CERT", ""))

\* Whether messages the SP sends are signed: bool(saml_sp_private_key).
RequestsSigned(e) == Bool(getenv_default(e, "SAML_SP_PRIVATE_KEY", ""))

\* settings["sp"] with the callback path of the OAuth handlers as the default.
SpSettingsOtherDefault(e) ==
    LET proxy_base_url == getenv(e, "PROXY_BASE_URL")[1]
        acs_path == getenv_default(e, "SAML_ACS_PATH", "/sso/callback")
    IN [entityId |->
            getenv_default(e, "SAML_ENTITY_ID", proxy_base_url \o "/sso/saml/metadata"),
        assertionConsumerService |->
            [url |-> proxy_base_url \o acs_path,
             binding |-> "urn:oasis:names:tc:SAML:2.0:bindings:HTTP-POST"],
        singleLogoutService |->
            [url |-> proxy_base_url \o "/sso/saml/sls",
             binding |-> "urn:oasis:names:tc:SAML:2.0:bindings:HTTP-Redirect"],
        NameIDFormat |->
            getenv_default(e, "SAML_NAME_ID_FORMAT",
                           "urn:oasis:names:tc:SAML:1.1:nameid-format:emailAddress"),
        x509cert |-> getenv_default(e, "SAML_SP_X509_CERT", ""),
        privateKey |-> getenv_default(e, "SAML_SP_PRIVATE_KEY", "")]

\* settings["sp"]
SpSettings(e) ==
    LET proxy_base_url == getenv(e, "PROXY_BASE_URL")[1]
        acs_path == getenv_default(e, "SAML_ACS_PATH", "/sso/saml/acs")
    IN [entityId |->
            getenv_default(e, "SAML_ENTITY_ID", proxy_base_url \o "/sso/saml/metadata"),
        assertionConsumerService |->
            [url |-> proxy_base_url \o acs_path,
             binding |-> "urn:oasis:names:tc:SAML:2.0:bindings:HTTP-POST"],
        singleLogoutService |->
            [url |-> proxy_base_url \o "/sso/saml/sls",
             binding |-> "urn:oasis:names:tc:SAML:2.0:bindings:HTTP-Redirect"],
        NameIDFormat |->
            getenv_default(e, "SAML_NAME_ID_FORMAT",
                           "urn:oasis:names:tc:SAML:1.1:nameid-format:emailAddress"),
        x509cert |-> getenv_default(e, "SAML_SP_X509_CERT", ""),
        privateKey |-> getenv_default(e, "SAML_SP_PRIVATE_KEY", "")]

\* settings["idp"] with the SP's certificate in the place of the IdP's.
IdpSettingsSpCert(e) ==
    [entityId |-> getenv(e, "SAML_IDP_ENTITY_ID")[1],
     singleSignOnService |->
         [url |-> getenv(e, "SAML_IDP_SSO_URL")[1],
          binding |-> "urn:oasis:names:tc:SAML:2.0:bindings:HTTP-Redirect"],
     singleLogoutService |->
         [url |-> getenv_default(e, "SAML_IDP_SLO_URL", ""),
          binding |-> "urn:oasis:names:tc:SAML:2.0:bindings:HTTP-Redirect"],
     x509cert |-> getenv_default(e, "SAML_SP_X509_CERT", "")]

\* settings["idp"]
IdpSettings(e) ==
    [entityId |-> getenv(e, "SAML_IDP_ENTITY_ID")[1],
     singleSignOnService |->
         [url |-> getenv(e, "SAML_IDP_SSO_URL")[1],
          binding |-> "urn:oasis:names:tc:SAML:2.0:bindings:HTTP-Redirect"],
     singleLogoutService |->
         [url |-> getenv_default(e, "SAML_IDP_SLO_URL", ""),
          binding |-> "urn:oasis:names:tc:SAML:2.0:bindings:HTTP-Redirect"],
     x509cert |-> getenv(e, "SAML_IDP_X509_CERT")[1]]

\* security.wantAssertionsSigned, and the setting that accepts unsigned assertions.
WantAssertionsUnsigned == FALSE

WantAssertionsSigned == TRUE

\* settings["security"]
SecuritySettings(e) ==
    LET signed == RequestsSigned(e)
    IN [nameIdEncrypted |-> FALSE,
        authnRequestsSigned |-> signed,
        logoutRequestSigned |-> signed,
        logoutResponseSigned |-> signed,
        signMetadata |-> signed,
        wantMessagesSigned |-> FALSE,
        wantAssertionsSigned |-> WantAssertionsSigned,
        wantAssertionsEncrypted |-> FALSE,
        wantNameId |-> TRUE,
        wantNameIdEncrypted |-> FALSE,
        wantAttributeStatement |-> FALSE,
        requestedAuthnContext |-> TRUE,
        requestedAuthnContextComparison |-> "exact",
        signatureAlgorithm |-> "http://www.w3.org/2001/04/xmldsig-more#rsa-sha256",
        digestAlgorithm |-> "http://www.w3.org/2001/04/xmlenc#sha256"]

\* The settings dictionary built once the four required values are present.
SettingsDict(e) ==
    [strict |-> TRUE,
     debug |-> LowersToTrue(getenv_default(e, "SAML_DEBUG", "false")),
     sp |-> SpSettings(e),
     idp |-> IdpSettings(e),
     security |-> SecuritySettings(e)]

\* _get_saml_settings(request_data): the settings, or the configuration error
\* of the first required value that is missing.
GetSamlSettings(e) ==
    LET missing == RequiredCheck(e)
    IN IF missing # None
       THEN Raise(ProxyException(MissingMessage(missing[1]), auth_error, missing[1], 500))
       ELSE Return(SettingsDict(e))

----------------------------------------------------------------------------
(* Attribute mapping: the end of process_saml_response *)

\* The configured attribute names, read from the environment with defaults.
AttributeNames(e) ==
    [user_id_attr |-> getenv_default(e, "SAML_USER_ID_ATTRIBUTE", "email"),
     user_email_attr |-> getenv_default(e, "SAML_USER_EMAIL_ATTRIBUTE", "email"),
     user_first_name_attr |-> getenv_default(e, "SAML_USER_FIRST_NAME_ATTRIBUTE", "firstName"),
     user_last_name_attr |-> getenv_default(e, "SAML_USER_LAST_NAME_ATTRIBUTE", "lastName"),
     user_display_name_attr |->
         getenv_default(e, "SAML_USER_DISPLAY_NAME_ATTRIBUTE", "displayName")]

\* The last value of the attribute's list instead of the first.
get_attr_value_last(attributes, attr_name) ==
    IF DOMAIN attributes = {}
    THEN None
    ELSE LET attr_values ==
                 IF attr_name \in DOMAIN attributes THEN attributes[attr_name] ELSE <<>>
         IN IF attr_values # <<>> THEN Some(attr_values[Len(attr_values)]) ELSE None

\* get_attr_value(attr_name): first value of the attribute's list, or None.
\* attributes is a dict from attribute name to a list of values.
get_attr_value(attributes, attr_name) ==
    IF DOMAIN attributes = {}
    THEN None
    ELSE LET attr_values ==
                 IF attr_name \in DOMAIN attributes THEN attributes[attr_name] ELSE <<>>
         IN IF attr_values # <<>> THEN Some(attr_values[1]) ELSE None

\* The display name without the "<first> <last>" case.
DisplayNameNoSynthesis(user_display_name, user_first_name, user_last_name, user_email) ==
    IF Falsy(user_display_name) THEN user_email ELSE user_display_name

\* The display name: the attribute's value, else "<first> <last>", else the email.
DisplayName(user_display_name, user_first_name, user_last_name, user_email) ==
    IF Falsy(user_display_name) /\ Truthy(user_first_name) /\ Truthy(user_last_name)
    THEN Some(user_first_name[1] \o " " \o user_last_name[1])
    ELSE IF Falsy(user_display_name)
    THEN user_email
    ELSE user_display_name

\* The CustomOpenID built from the attributes and NameID of an accepted
\* response, under the attribute names configured in environment e.
BuildIdentity(attributes, name_id, e) ==
    LET names == AttributeNames(e)
        user_id == Or(get_attr_value(attributes, names.user_id_attr), name_id)
        user_email == Or(get_attr_value(attributes, names.user_email_attr), name_id)
        user_first_name == get_attr_value(attributes, names.user_first_name_attr)
        user_last_name == get_attr_value(attributes, names.user_last_name_attr)
        user_display_name == get_attr_value(attributes, names.user_display_name_attr)
    IN [id |-> user_id,
        email |-> user_email,
        first_name |-> user_first_name,
        last_name |-> user_last_name,
        display_name |->
            DisplayName(user_display_name, user_first_name, user_last_name, user_email),
        provider |-> "saml",
        team_ids |-> <<>>]

----------------------------------------------------------------------------
(* The checks of process_saml_response, get_metadata, should_use_saml_handler *)

\* The check of get_errors() alone, without the one of is_authenticated().
ResponseErrorNoAuthCheck(errors, error_reason, authenticated) ==
    IF errors # <<>>
    THEN Some(ProxyException("SAML authentication failed: " \o Str(error_reason),
                             auth_error, "saml_response", 401))
    ELSE None

\* What process_saml_response raises after auth.process_response(), given the
\* library's get_errors(), get_last_error_reason() and is_authenticated():
\* None when the response is accepted.
ResponseError(errors, error_reason, authenticated) ==
    IF errors # <<>>
    THEN Some(ProxyException("SAML authentication failed: " \o Str(error_reason),
                             auth_error, "saml_response", 401))
    ELSE IF ~authenticated
    THEN Some(ProxyException("SAML authentication failed: User not authenticated",
                             auth_error, "saml_response", 401))
    ELSE None

\* ', '.join(errors)
RECURSIVE Join(_)
Join(errors) ==
    IF errors = <<>> THEN ""
    ELSE IF Len(errors) = 1 THEN errors[1]
    ELSE errors[1] \o ", " \o Join(Tail(errors))

\* The metadata returned whatever its validation reports.
MetadataOutcomeUnchecked(metadata, errors) == Return(metadata)

\* What get_metadata does with the metadata and the errors of validate_metadata.
MetadataOutcome(metadata, errors) ==
    IF errors # <<>>
    THEN Raise(ProxyException("SAML metadata validation failed: " \o Join(errors),
                              auth_error, "saml_metadata", 500))
    ELSE Return(metadata)

\* The same with the proxy's base URL as a fourth condition.
ShouldUseSamlHandlerWithBaseUrl(e) ==
    /\ Truthy(getenv(e, "SAML_IDP_ENTITY_ID"))
    /\ Truthy(getenv(e, "SAML_IDP_SSO_URL"))
    /\ Truthy(getenv(e, "SAML_IDP_X509_CERT"))
    /\ Truthy(getenv(e, "PROXY_BASE_URL"))

\* should_use_saml_handler(): bool(a and b and c) of the three IdP variables.
ShouldUseSamlHandler(e) ==
    /\ Truthy(getenv(e, "SAML_IDP_ENTITY_ID"))
    /\ Truthy(getenv(e, "SAML_IDP_SSO_URL"))
    /\ Truthy(getenv(e, "SAML_IDP_X509_CERT"))

----------------------------------------------------------------------------
(* Values of the environment *)

IdpEntityId == "https://idp.example.com"
IdpSsoUrl == "https://idp.example.com/sso"
ProxyBaseUrl == "https://proxy.example.com"
\* Three texts for SAML_IDP_X509_CERT.  FixtureCert is the text the tests'
\* fixture sets: base64 of the first 282 bytes of a certificate whose header
\* declares 608, so it does not decode to a certificate.  MockCert is the
\* tests' "mock_cert", which does not decode either.  ValidCert is the base64
\* DER of a complete self-signed certificate (EC P-256, CN=idp.example.com),
\* which decodes to a public key.
FixtureCert == "MIICXDCCAcWgAwIBAgIBADANBgkqhkiG9w0BAQ0FADBLMQswCQYDVQQGEwJ1czELMAkGA1UECAwCQ0ExFjAUBgNVBAoMDU9uZUxvZ2luIEluYy4xFzAVBgNVBAMMDnNwLmV4YW1wbGUuY29tMB4XDTIzMDEwMTAwMDAwMFoXDTI4MDEwMTAwMDAwMFowSzELMAkGA1UEBhMCdXMxCzAJBgNVBAgMAkNBMRYwFAYDVQQKDA1PbmVMb2dpbiBJbmMuMRcwFQYDVQQDDA5zcC5leGFtcGxlLmNvbTCBnzANBgkqhkiG9w0BAQEFAAOBjQAwgYkCgYEAtlE7p7cPpKMDnDnF2suDmQN/iDFALTpBwlT4RmlqW8vLpv6H"
MockCert == "mock_cert"
ValidCert == "MIIBiTCCAS+gAwIBAgIUWP+PFsDU8YqsJazGlI+Ot3bOxnUwCgYIKoZIzj0EAwIwGjEYMBYGA1UEAwwPaWRwLmV4YW1wbGUuY29tMB4XDTI2MTAyOTExNDAwOFoXDTM2MTAyNjExNDAwOFowGjEYMBYGA1UEAwwPaWRwLmV4YW1wbGUuY29tMFkwEwYHKoZIzj0CAQYIKoZIzj0DAQcDQgAEGsQlydLOUJj1PmCbQkJoKfpqPefa4/UGonaMRLTrC1B4TqddB6dyRyDcSHF3qRn/cDbLMERoi8T4MEF2DVmxjqNTMFEwHQYDVR0OBBYEFPMzvtBykQ+2Q2OBAqJx2MeXBRcEMB8GA1UdIwQYMBaAFPMzvtBykQ+2Q2OBAqJx2MeXBRcEMA8GA1UdEwEB/wQFMAMBAf8wCgYIKoZIzj0EAwIDSAAwRQIhAK+4TyrRczr/2x7ZMBrh7q6HEgCvLoXfeLHxIVOLGUj4AiBKfZbek+UKFvVlUxZZ5FxpZc6V0br1lc5aE0y7SQjo5w=="

\* The environment of the tests' fixture mock_saml_env_vars (its four
\* attribute names included).
FixtureEnv ==
    [v \in EnvVars |->
        CASE v = "SAML_IDP_ENTITY_ID" -> Some(IdpEntityId)
          [] v = "SAML_IDP_SSO_URL" -> Some(IdpSsoUrl)
          [] v = "SAML_IDP_X509_CERT" -> Some(FixtureCert)
          [] v = "PROXY_BASE_URL" -> Some(ProxyBaseUrl)
          [] v = "SAML_USER_ID_ATTRIBUTE" -> Some("email")
          [] v = "SAML_USER_EMAIL_ATTRIBUTE" -> Some("email")
          [] v = "SAML_USER_FIRST_NAME_ATTRIBUTE" -> Some("firstName")
          [] v = "SAML_USER_LAST_NAME_ATTRIBUTE" -> Some("lastName")
          [] OTHER -> None]

\* The environments _get_saml_settings is applied to: each required variable
\* unset, empty or set; each optional one unset or set.
SettingsEnvs ==
    [SAML_IDP_ENTITY_ID : {None, Some(""), Some(IdpEntityId)},
     SAML_IDP_SSO_URL : {None, Some(""), Some(IdpSsoUrl)},
     SAML_IDP_X509_CERT : {None, Some(""), Some(MockCert), Some(FixtureCert),
                           Some(ValidCert)},
     PROXY_BASE_URL : {None, Some(""), Some(ProxyBaseUrl)},
     SAML_ENTITY_ID : {None, Some("litellm-sp")},
     SAML_NAME_ID_FORMAT : {None, Some("urn:oasis:names:tc:SAML:2.0:nameid-format:persistent")},
     SAML_SP_X509_CERT : {None, Some(""), Some("sp_cert")},
     SAML_SP_PRIVATE_KEY : {None, Some(""), Some("sp_key")},
     SAML_ACS_PATH : {None, Some("/custom/acs")},
     SAML_DEBUG : {None, Some("tRuE")},
     SAML_IDP_SLO_URL : {None, Some("https://idp.example.com/slo")},
     SAML_USER_ID_ATTRIBUTE : {None},
     SAML_USER_EMAIL_ATTRIBUTE : {None},
     SAML_USER_FIRST_NAME_ATTRIBUTE : {None},
     SAML_USER_LAST_NAME_ATTRIBUTE : {None},
     SAML_USER_DISPLAY_NAME_ATTRIBUTE : {None}]

----------------------------------------------------------------------------
(* Tasks: the requests the proxy is serving *)

MaxTasks == 2
Tasks == 1..MaxTasks

\* No call running or finished anywhere.
Quiet ==
    /\ pc = [t \in Tasks |-> "idle"]
    /\ op = [t \in Tasks |-> "none"]
    /\ loc = [t \in Tasks |-> NoLocals]
    /\ res = [t \in Tasks |-> NoOutcome]
    /\ trace = [t \in Tasks |-> <<>>]
    /\ changes = 0

----------------------------------------------------------------------------
(* The SAML library, as the tests mock it: the posted form stands for what *)
(* OneLogin_Saml2_Auth reports on it.                                      *)

EmptyDict == [n \in {} |-> <<>>]

\* The attributes of test_process_saml_response_success.
FixtureAttributes ==
    [email |-> <<"user@example.com">>, firstName |-> <<"John">>,
     lastName |-> <<"Doe">>, displayName |-> <<"John Doe">>]

\* Posted forms: rejected with errors, without errors but not authenticated,
\* and accepted, with or without attributes.
MockForms ==
    [errors : {<<"invalid_response">>}, error_reason : {Some("Invalid SAML response")},
     authenticated : BOOLEAN, attributes : {EmptyDict}, name_id : {None}]
    \cup
    [errors : {<<>>}, error_reason : {None}, authenticated : {FALSE},
     attributes : {EmptyDict}, name_id : {None}]
    \cup
    [errors : {<<>>}, error_reason : {None}, authenticated : {TRUE},
     attributes : {EmptyDict, FixtureAttributes}, name_id : {Some("user@example.com")}]

\* What the mocked OneLogin_Saml2_Auth reports after process_response().
MockLibrary(form, saml_settings) == form

\* The return value of auth.login(return_to=state): the IdP SSO URL with the
\* encoded request, and the relay state when one is given.
AuthLogin(saml_settings, state) ==
    saml_settings.idp.singleSignOnService.url \o "?SAMLRequest=..."
        \o (IF state = None THEN "" ELSE "&RelayState=" \o state[1])

RelayStates == {None, Some("/ui")}

\* What settings.get_sp_metadata() and settings.validate_metadata() return.
MetadataDocs == {"<?xml version=\"1.0\"?><md:EntityDescriptor>...</md:EntityDescriptor>"}
MetadataErrors == {<<>>, <<"invalid_xml">>, <<"noEntityDescriptor_xml", "onlySPSSODescriptor_allowed_xml">>}

----------------------------------------------------------------------------
(* The response validation the handler delegates to the SAML library, as    *)
(* section 4.3 of the specification describes it.                           *)

MaxDefects == 2

\* The checks of section 4.3 in their order, each with the failure it reports.
ValidationChecks ==
    <<[defect |-> "unparseable", kind |-> "Malformed"],
      [defect |-> "signature", kind |-> "SignatureInvalid"],
      [defect |-> "window", kind |-> "Expired"],
      [defect |-> "audience", kind |-> "AudienceMismatch"],
      [defect |-> "issuer", kind |-> "IssuerMismatch"],
      [defect |-> "authn_statement", kind |-> "NoAuthnStatement"]>>

Defects == {ValidationChecks[i].defect : i \in 1..Len(ValidationChecks)}

\* An attribute statement altered after the assertion was signed.
TamperedAttributes ==
    [email |-> <<"admin@example.com">>, firstName |-> <<"John">>,
     lastName |-> <<"Doe">>, displayName |-> <<"John Doe">>]

\* Posted responses: what is wrong with each (at most MaxDefects things), and
\* the subject and attributes it carries.  A response whose subject or
\* attributes were altered under an unchanged signature does not verify.
ValidatedForms ==
    {f \in [defects : {d \in SUBSET Defects : Cardinality(d) <= MaxDefects},
            attributes : {FixtureAttributes, TamperedAttributes},
            name_id : {Some("user@example.com")}] :
        f.attributes = TamperedAttributes => "signature" \in f.defects}

\* Whether a check applies under the security settings: the signature is
\* verified when signed assertions are required.
CheckApplies(check, saml_settings) ==
    check.defect = "signature" => saml_settings.security.wantAssertionsSigned

\* validate_response: the failure of the first failing check, "Valid" if none.
ValidateResponse(form, saml_settings) ==
    LET failing == {i \in 1..Len(ValidationChecks) :
                       /\ ValidationChecks[i].defect \in form.defects
                       /\ CheckApplies(ValidationChecks[i], saml_settings)}
    IN IF failing = {}
       THEN "Valid"
       ELSE ValidationChecks[CHOOSE i \in failing : \A j \in failing : i <= j].kind

\* What OneLogin_Saml2_Auth reports after process_response() on the form.
SpecLibrary(form, saml_settings) ==
    LET kind == ValidateResponse(form, saml_settings)
    IN IF kind = "Valid"
       THEN [errors |-> <<>>, error_reason |-> None, authenticated |-> TRUE,
             attributes |-> form.attributes, name_id |-> form.name_id]
       ELSE [errors |-> <<"invalid_response">>, error_reason |-> Some(kind),
             authenticated |-> FALSE, attributes |-> EmptyDict, name_id |-> None]

\* What auth reports after auth.process_response(): a mocked form carries the
\* report itself, any other form is validated.
LibraryReport(form, saml_settings) ==
    IF "defects" \in DOMAIN form
    THEN SpecLibrary(form, saml_settings)
    ELSE MockLibrary(form, saml_settings)

----------------------------------------------------------------------------
(* The operations of the handler, as steps of the tasks *)

MaxEnvChanges == 1

\* A configuration kept from process start.
EnvironAtStartup == env0

\* os.environ as os.getenv reads it: the environment of the moment.
Environ == env

\* The environments the flow starts in, and the values a later change may set.
FlowValues ==
    [SAML_IDP_ENTITY_ID |-> {None, Some(IdpEntityId)},
     SAML_USER_EMAIL_ATTRIBUTE |-> {Some("email"), Some("mail")}]

FlowEnvs ==
    {[v \in EnvVars |-> IF v \in DOMAIN a THEN a[v] ELSE FixtureEnv[v]] : a \in
        [SAML_IDP_ENTITY_ID : FlowValues["SAML_IDP_ENTITY_ID"],
         SAML_USER_EMAIL_ATTRIBUTE : FlowValues["SAML_USER_EMAIL_ATTRIBUTE"]]}

\* Task t ends its call with outcome r, locals l, having performed events ev.
Finish(t, name, r, l, ev) ==
    /\ pc' = [pc EXCEPT ![t] = "done"]
    /\ op' = [op EXCEPT ![t] = name]
    /\ res' = [res EXCEPT ![t] = r]
    /\ loc' = [loc EXCEPT ![t] = l]
    /\ trace' = [trace EXCEPT ![t] = @ \o ev]

\* get_login_url(request, state)
GetLoginUrl(t) ==
    /\ pc[t] = "idle"
    /\ \E state \in RelayStates :
           LET saml_settings == GetSamlSettings(Environ)
               l == [read |-> "settings", settings |-> saml_settings]
           IN IF saml_settings.kind = "raise"
              THEN Finish(t, "get_login_url", saml_settings, l,
                          <<"_prepare_request_from_fastapi", "_get_saml_settings">>)
              ELSE Finish(t, "get_login_url",
                          Return(AuthLogin(saml_settings.value, state)), l,
                          <<"_prepare_request_from_fastapi", "_get_saml_settings",
                            "OneLogin_Saml2_Auth", "auth.login">>)
    /\ UNCHANGED <<env, env0, changes, fin, fout>>

\* process_saml_response(request), up to `await request.form()`: the call is
\* suspended until the posted form has been read.
AcsStart(t, Forms) ==
    /\ pc[t] = "idle"
    /\ \E form \in Forms :
           loc' = [loc EXCEPT ![t] = [read |-> "nothing", form |-> form]]
    /\ pc' = [pc EXCEPT ![t] = "await_form"]
    /\ op' = [op EXCEPT ![t] = "process_saml_response"]
    /\ trace' = [trace EXCEPT ![t] = <<"_prepare_request_from_fastapi">>]
    /\ UNCHANGED <<env, env0, res, changes, fin, fout>>

\* A request buffer shared by the calls in progress: the post data handed to
\* the library is that of whichever call holds a form, not this call's own.
PostDataShared(t) ==
    LET others == {u \in Tasks \ {t} : "form" \in DOMAIN loc[u]}
    IN IF others = {}
       THEN loc[t].form
       ELSE loc[CHOOSE u \in others : TRUE].form

\* request_data["post_data"] = dict(form_data): the form of this call's own
\* request, held in a local of the call.
PostData(t) == loc[t].form

\* process_saml_response, from the form's arrival to the two checks on the
\* library's report.
AcsProcess(t) ==
    /\ pc[t] = "await_form"
    /\ LET saml_settings == GetSamlSettings(Environ)
           form == loc[t].form
       IN IF saml_settings.kind = "raise"
          THEN Finish(t, "process_saml_response", saml_settings,
                      [read |-> "settings", form |-> form, settings |-> saml_settings],
                      <<"request.form", "_get_saml_settings">>)
          ELSE LET auth == LibraryReport(PostData(t), saml_settings.value)
                   error == ResponseError(auth.errors, auth.error_reason,
                                          auth.authenticated)
                   l == [read |-> "settings", form |-> form,
                         settings |-> saml_settings, auth |-> auth]
                   ev == <<"request.form", "_get_saml_settings",
                           "OneLogin_Saml2_Auth", "auth.process_response">>
               IN IF error # None
                  THEN Finish(t, "process_saml_response", Raise(error[1]), l, ev)
                  ELSE /\ pc' = [pc EXCEPT ![t] = "authenticated"]
                       /\ loc' = [loc EXCEPT ![t] = l]
                       /\ trace' = [trace EXCEPT ![t] = @ \o ev]
                       /\ UNCHANGED <<op, res>>
    /\ UNCHANGED <<env, env0, changes, fin, fout>>

\* process_saml_response, from the read of the attribute names to the return.
AcsMap(t) ==
    /\ pc[t] = "authenticated"
    /\ Finish(t, "process_saml_response",
              Return(BuildIdentity(loc[t].auth.attributes, loc[t].auth.name_id, Environ)),
              [read |-> "names", form |-> loc[t].form, settings |-> loc[t].settings,
               auth |-> loc[t].auth, names |-> AttributeNames(Environ)],
              <<"auth.get_attributes", "auth.get_nameid">>)
    /\ UNCHANGED <<env, env0, changes, fin, fout>>

\* get_metadata()
GetMetadata(t) ==
    /\ pc[t] = "idle"
    /\ LET saml_settings == GetSamlSettings(Environ)
       IN IF saml_settings.kind = "raise"
          THEN Finish(t, "get_metadata", saml_settings,
                      [read |-> "settings", settings |-> saml_settings],
                      <<"_get_saml_settings">>)
          ELSE \E metadata \in MetadataDocs, errors \in MetadataErrors :
                  Finish(t, "get_metadata", MetadataOutcome(metadata, errors),
                         [read |-> "settings", settings |-> saml_settings,
                          metadata |-> metadata, errors |-> errors],
                         <<"_get_saml_settings", "OneLogin_Saml2_Settings",
                           "settings.get_sp_metadata", "settings.validate_metadata">>)
    /\ UNCHANGED <<env, env0, changes, fin, fout>>

\* should_use_saml_handler()
ShouldUse(t) ==
    /\ pc[t] = "idle"
    /\ Finish(t, "should_use_saml_handler", Return(ShouldUseSamlHandler(Environ)),
              [read |-> "environ"], <<>>)
    /\ UNCHANGED <<env, env0, changes, fin, fout>>

\* The environment of the running process is changed (os.environ is ambient,
\* mutable state of the process).
SetEnv ==
    /\ changes < MaxEnvChanges
    /\ \E v \in DOMAIN FlowValues : \E val \in FlowValues[v] :
           /\ val # env[v]
           /\ env' = [env EXCEPT ![v] = val]
    /\ changes' = changes + 1
    /\ UNCHANGED <<env0, pc, op, loc, res, trace, fin, fout>>

Init ==
    /\ env \in FlowEnvs
    /\ env0 = env
    /\ Quiet
    /\ fin = [fn |-> "none"]
    /\ fout = NoOutcome

\* The call is over: its locals and its result are gone with its frame, and
\* the worker takes the next request.  The handler's methods are static and
\* the class holds no attribute, so nothing of the call stays behind.
NextRequest(t) ==
    /\ pc[t] = "done"
    /\ pc' = [pc EXCEPT ![t] = "idle"]
    /\ op' = [op EXCEPT ![t] = "none"]
    /\ loc' = [loc EXCEPT ![t] = NoLocals]
    /\ res' = [res EXCEPT ![t] = NoOutcome]
    /\ trace' = [trace EXCEPT ![t] = <<>>]
    /\ UNCHANGED <<env, env0, changes, fin, fout>>

Next ==
    \/ \E t \in Tasks : GetLoginUrl(t)
    \/ \E t \in Tasks : AcsStart(t, MockForms)
    \/ \E t \in Tasks : AcsProcess(t)
    \/ \E t \in Tasks : AcsMap(t)
    \/ \E t \in Tasks : GetMetadata(t)
    \/ \E t \in Tasks : ShouldUse(t)
    \/ \E t \in Tasks : NextRequest(t)
    \/ SetEnv

Spec == Init /\ [][Next]_vars

----------------------------------------------------------------------------
(* process_saml_response on responses the library validates *)

NextValidate ==
    \/ \E t \in Tasks : AcsStart(t, ValidatedForms)
    \/ \E t \in Tasks : AcsProcess(t)
    \/ \E t \in Tasks : AcsMap(t)

\* One request is served, by task 1; the other tasks stay out of use.
InitValidate ==
    /\ env \in FlowEnvs
    /\ env0 = env
    /\ pc = [t \in Tasks |-> IF t = 1 THEN "idle" ELSE "unused"]
    /\ op = [t \in Tasks |-> "none"]
    /\ loc = [t \in Tasks |-> NoLocals]
    /\ res = [t \in Tasks |-> NoOutcome]
    /\ trace = [t \in Tasks |-> <<>>]
    /\ changes = 0
    /\ fin = [fn |-> "none"]
    /\ fout = NoOutcome

SpecValidate == InitValidate /\ [][NextValidate]_vars

----------------------------------------------------------------------------
(* _get_saml_settings applied to an environment *)

InitSettings ==
    /\ env \in SettingsEnvs
    /\ env0 = env
    /\ Quiet
    /\ fin = [fn |-> "_get_saml_settings"]
    /\ fout = NoOutcome

ApplyGetSamlSettings ==
    /\ fin.fn = "_get_saml_settings"
    /\ fout = NoOutcome
    /\ fout' = GetSamlSettings(env)
    /\ UNCHANGED <<env, env0, pc, op, loc, res, trace, changes, fin>>

\* _get_saml_settings and should_use_saml_handler run in the same environment.
NextSettings ==
    \/ ApplyGetSamlSettings
    \/ \E t \in Tasks : ShouldUse(t)

SpecSettings == InitSettings /\ [][NextSettings]_vars

----------------------------------------------------------------------------
(* The attribute mapping applied to the attributes of an accepted response *)

MaxAttrVals == 2

\* Lists of at most n values drawn from V.
Lists(V, n) == UNION {[1..k -> V] : k \in 0..n}

Absent == <<"<absent>">>

\* The dict that holds the attributes of r which are not Absent.
AsDict(r) == [n \in {m \in DOMAIN r : r[m] # Absent} |-> r[n]]

\* Attribute statements: each attribute absent, empty, or with up to MaxAttrVals
\* values (the library drops empty values, so no value is "").
AttributeDicts ==
    {AsDict(r) : r \in
        [email : Lists({"a@b.com", "user@example.com"}, MaxAttrVals) \cup {Absent},
         firstName : Lists({"A"}, MaxAttrVals) \cup {Absent},
         lastName : Lists({"B"}, MaxAttrVals) \cup {Absent},
         displayName : Lists({"John Doe"}, MaxAttrVals) \cup {Absent}]}

NameIds == {Some("nameid@idp.example.com")}

\* Environments that differ in the configured attribute names.
MappingEnvs ==
    {[v \in EnvVars |-> IF v \in DOMAIN a THEN a[v] ELSE FixtureEnv[v]] : a \in
        [SAML_USER_ID_ATTRIBUTE : {None, Some("email"), Some("firstName"), Some("uid")},
         SAML_USER_EMAIL_ATTRIBUTE : {None, Some("mail"), Some("")},
         SAML_USER_FIRST_NAME_ATTRIBUTE : {None, Some("lastName")},
         SAML_USER_LAST_NAME_ATTRIBUTE : {None, Some("lastName")},
         SAML_USER_DISPLAY_NAME_ATTRIBUTE : {None, Some("email")}]}

InitMap ==
    /\ env \in MappingEnvs
    /\ env0 = env
    /\ Quiet
    /\ \E a \in AttributeDicts, n \in NameIds :
           fin = [fn |-> "map_identity", attributes |-> a, name_id |-> n]
    /\ fout = NoOutcome

ApplyBuildIdentity ==
    /\ fin.fn = "map_identity"
    /\ fout = NoOutcome
    /\ fout' = Return(BuildIdentity(fin.attributes, fin.name_id, env))
    /\ UNCHANGED <<env, env0, pc, op, loc, res, trace, changes, fin>>

NextMap == ApplyBuildIdentity

SpecMap == InitMap /\ [][NextMap]_vars

----------------------------------------------------------------------------
(* Properties of _get_saml_settings *)

SettingsApplied == fin.fn = "_get_saml_settings" /\ fout # NoOutcome

\* Index in RequiredVars of the first required variable that is unset or empty
\* (0 when none is).
FirstMissingIndex(e) ==
    LET missing == {i \in 1..Len(RequiredVars) : Falsy(e[RequiredVars[i]])}
    IN IF missing = {} THEN 0 ELSE CHOOSE i \in missing : \A j \in missing : i <= j

\* C3: whenever one of the four required values is unset or empty,
\* _get_saml_settings returns no settings and raises a configuration error of
\* code 500 whose param and message name the first missing variable in the
\* order entity ID, SSO URL, certificate, base URL.
C3_MissingRequiredRaises500 ==
    (SettingsApplied /\ FirstMissingIndex(env) # 0) =>
        LET name == RequiredVars[FirstMissingIndex(env)]
        IN /\ fout.kind = "raise"
           /\ fout.error.exc = "ProxyException"
           /\ fout.error.code = 500
           /\ fout.error.param = name
           /\ fout.error.message \in
                  {name \o " not set. Set it in .env file",
                   name \o " not set. Required for SAML SSO redirects"}

\* Two values are missing and the error names the earlier one.
C3_Witness ==
    /\ SettingsApplied
    /\ env["SAML_IDP_ENTITY_ID"] = Some(IdpEntityId)
    /\ env["SAML_IDP_SSO_URL"] = Some("")
    /\ env["SAML_IDP_X509_CERT"] = None
    /\ fout.kind = "raise"
    /\ fout.error.param = "SAML_IDP_SSO_URL"

\* C6: in every settings value returned, authnRequestsSigned is on exactly
\* when a non-empty SAML_SP_PRIVATE_KEY was supplied, whatever the other
\* variables hold.
C6_SigningIffPrivateKey ==
    (SettingsApplied /\ fout.kind = "return") =>
        (fout.value.security.authnRequestsSigned <=> Truthy(env["SAML_SP_PRIVATE_KEY"]))

\* Signing is on with a key and no SP certificate, and off with a certificate
\* and no key: only the key decides.
C6_Witness ==
    /\ SettingsApplied
    /\ fout.kind = "return"
    /\ fout.value.security.authnRequestsSigned
    /\ env["SAML_SP_X509_CERT"] = None
    /\ env["SAML_DEBUG"] = Some("tRuE")
    /\ fout.value.debug

\* C7: every settings value returned with a non-empty SP private key also
\* carries a non-empty SP certificate.
C7_PrivateKeyImpliesCertificate ==
    (SettingsApplied /\ fout.kind = "return" /\ fout.value.sp.privateKey # "") =>
        fout.value.sp.x509cert # ""

\* Whether the text of a certificate decodes to a certificate.
CertParses(s) == s = ValidCert

\* C8 (as stated): building settings fails with a configuration error whenever
\* the supplied IdP certificate does not parse.
C8_UnparsedCertificateRejected ==
    (SettingsApplied /\ env["SAML_IDP_X509_CERT"] # None
        /\ ~CertParses(env["SAML_IDP_X509_CERT"][1])) =>
        (fout.kind = "raise" /\ fout.error.code = 500)

\* C8 (amended): with the other three required values present, building
\* settings fails for the IdP certificate exactly when it is unset or empty
\* (code 500, param SAML_IDP_X509_CERT); any non-empty text, decodable or not,
\* is accepted and carried unchanged as idp.x509cert.
C8_OnlyMissingCertificateRejected ==
    (SettingsApplied
        /\ Truthy(env["SAML_IDP_ENTITY_ID"]) /\ Truthy(env["SAML_IDP_SSO_URL"])
        /\ Truthy(env["PROXY_BASE_URL"])) =>
        IF Falsy(env["SAML_IDP_X509_CERT"])
        THEN /\ fout.kind = "raise"
             /\ fout.error.code = 500
             /\ fout.error.param = "SAML_IDP_X509_CERT"
        ELSE /\ fout.kind = "return"
             /\ fout.value.idp.x509cert = env["SAML_IDP_X509_CERT"][1]

\* Settings were returned that carry a certificate text which does not decode.
C8_Witness ==
    /\ SettingsApplied
    /\ fout.kind = "return"
    /\ fout.value.idp.x509cert = MockCert
    /\ ~CertParses(fout.value.idp.x509cert)

----------------------------------------------------------------------------
(* Properties of the attribute mapping *)

MapApplied == fin.fn = "map_identity" /\ fout # NoOutcome

\* The attribute name configured by variable v, d when v is unset.
Configured(v, d) == IF env[v] = None THEN d ELSE env[v][1]

\* The attribute named n is present in the statement with at least one value.
Present(n) == n \in DOMAIN fin.attributes /\ Len(fin.attributes[n]) > 0

FirstValue(n) == Some(fin.attributes[n][1])

\* C4: each of id, email, first name, last name and display name is looked up
\* under its configured attribute name and takes the first value of the
\* attribute; when the attribute is absent (no attributes, name not present,
\* empty list) id and email fall back to the NameID and first and last name
\* stay absent.
C4_FirstValueOrNameId ==
    MapApplied =>
        LET id_attr == Configured("SAML_USER_ID_ATTRIBUTE", "email")
            email_attr == Configured("SAML_USER_EMAIL_ATTRIBUTE", "email")
            first_attr == Configured("SAML_USER_FIRST_NAME_ATTRIBUTE", "firstName")
            last_attr == Configured("SAML_USER_LAST_NAME_ATTRIBUTE", "lastName")
            display_attr == Configured("SAML_USER_DISPLAY_NAME_ATTRIBUTE", "displayName")
            identity == fout.value
        IN /\ identity.id = IF Present(id_attr) THEN FirstValue(id_attr) ELSE fin.name_id
           /\ identity.email =
                  IF Present(email_attr) THEN FirstValue(email_attr) ELSE fin.name_id
           /\ identity.first_name =
                  IF Present(first_attr) THEN FirstValue(first_attr) ELSE None
           /\ identity.last_name =
                  IF Present(last_attr) THEN FirstValue(last_attr) ELSE None
           /\ Present(display_attr) => identity.display_name = FirstValue(display_attr)

\* The id comes from the first of two different values, the email falls back
\* to the NameID, and the last name is absent because its list is empty.
C4_Witness ==
    /\ MapApplied
    /\ "email" \in DOMAIN fin.attributes
    /\ fin.attributes["email"] = <<"user@example.com", "a@b.com">>
    /\ "lastName" \in DOMAIN fin.attributes
    /\ fin.attributes["lastName"] = <<>>
    /\ env["SAML_USER_EMAIL_ATTRIBUTE"] = Some("mail")
    /\ fout.value.id = Some("user@example.com")
    /\ fout.value.email = fin.name_id
    /\ fout.value.last_name = None

\* C5: the display name is the display-name attribute's first value when
\* present; otherwise "<first> <last>" when first and last name are both
\* present; otherwise the identity's email.  In particular, under the default
\* attribute names, {email: [a@b.com], firstName: [A], lastName: [B]} yields
\* id = email = a@b.com, first = A, last = B, display = "A B".
C5_DisplayNameRule ==
    MapApplied =>
        LET display_attr == Configured("SAML_USER_DISPLAY_NAME_ATTRIBUTE", "displayName")
            identity == fout.value
        IN /\ identity.display_name =
                  IF Present(display_attr)
                  THEN FirstValue(display_attr)
                  ELSE IF identity.first_name # None /\ identity.last_name # None
                  THEN Some(identity.first_name[1] \o " " \o identity.last_name[1])
                  ELSE identity.email
           /\ (/\ fin.attributes =
                      [email |-> <<"a@b.com">>, firstName |-> <<"A">>, lastName |-> <<"B">>]
               /\ \A v \in AttributeVars : env[v] = None)
               => identity = [id |-> Some("a@b.com"), email |-> Some("a@b.com"),
                              first_name |-> Some("A"), last_name |-> Some("B"),
                              display_name |-> Some("A B"), provider |-> "saml",
                              team_ids |-> <<>>]

\* The round trip of the specification: display name synthesized as "A B".
C5_Witness ==
    /\ MapApplied
    /\ fin.attributes =
           [email |-> <<"a@b.com">>, firstName |-> <<"A">>, lastName |-> <<"B">>]
    /\ \A v \in AttributeVars : env[v] = None
    /\ fout.value.display_name = Some("A B")

\* The display name falls back to an email that is itself the NameID.
C5_WitnessEmailFallback ==
    /\ MapApplied
    /\ DOMAIN fin.attributes = {}
    /\ fout.value.display_name = fin.name_id

----------------------------------------------------------------------------
(* Properties of process_saml_response *)

\* Task t is at or past the checks of a process_saml_response call in which
\* the library processed the response.
Processed(t) ==
    /\ op[t] = "process_saml_response"
    /\ pc[t] \in {"authenticated", "done"}
    /\ "auth" \in DOMAIN loc[t]

\* C1: process_saml_response returns an identity only when the library
\* reports no errors and is_authenticated() is true; when it reports errors,
\* or none but not authenticated, the call raises an authentication error of
\* status 401 and gets no further (no identity is built or returned).
C1_AllOrNothing ==
    \A t \in Tasks :
        /\ (op[t] = "process_saml_response" /\ res[t].kind = "return") =>
               /\ "auth" \in DOMAIN loc[t]
               /\ loc[t].auth.errors = <<>>
               /\ loc[t].auth.authenticated
        /\ (Processed(t) /\ (loc[t].auth.errors # <<>> \/ ~loc[t].auth.authenticated)) =>
               /\ pc[t] = "done"
               /\ res[t].kind = "raise"
               /\ res[t].error.exc = "ProxyException"
               /\ res[t].error.type = auth_error
               /\ res[t].error.code = 401

\* The library reported no errors yet the user is not authenticated: 401.
C1_Witness ==
    \E t \in Tasks :
        /\ Processed(t)
        /\ loc[t].auth.errors = <<>>
        /\ ~loc[t].auth.authenticated
        /\ res[t].kind = "raise"
        /\ res[t].error.code = 401

\* The first check of the response that fails is the signature check.
SignatureRejected(t) ==
    /\ Processed(t)
    /\ "defects" \in DOMAIN loc[t].form
    /\ "signature" \in loc[t].form.defects
    /\ "unparseable" \notin loc[t].form.defects

\* The kind an error carries: the type of the ProxyException.
ErrorKind(error) == error.type

\* C2 (as stated): a response whose signature does not verify is rejected with
\* the error kind SignatureInvalid, and no identity is returned.
C2_SignatureInvalidKind ==
    \A t \in Tasks :
        SignatureRejected(t) =>
            /\ pc[t] = "done"
            /\ res[t].kind = "raise"
            /\ ErrorKind(res[t].error) = "SignatureInvalid"

\* C2 (amended): a response whose signature does not verify, a tampered one
\* included, is rejected with the one kind of error every rejected response
\* gets (ProxyException of type auth_error, param saml_response, status 401);
\* the failure is told apart only by the library's reason, carried in the
\* message; no identity is built or returned.
C2_SignatureInvalidRejected ==
    \A t \in Tasks :
        SignatureRejected(t) =>
            /\ pc[t] = "done"
            /\ res[t].kind = "raise"
            /\ res[t].error =
                   ProxyException("SAML authentication failed: SignatureInvalid",
                                  auth_error, "saml_response", 401)

\* A tampered response that is otherwise in order was rejected.
C2_Witness ==
    \E t \in Tasks :
        /\ SignatureRejected(t)
        /\ loc[t].form.attributes = TamperedAttributes
        /\ loc[t].form.defects = {"signature"}
        /\ res[t].kind = "raise"
        /\ res[t].error.code = 401

----------------------------------------------------------------------------
(* Properties of get_metadata *)

\* How many times event e occurs in sequence s, and where it first does.
Count(s, e) == Cardinality({i \in 1..Len(s) : s[i] = e})
First(s, e) == CHOOSE i \in 1..Len(s) : s[i] = e /\ \A j \in 1..(i - 1) : s[j] # e

\* C9: get_metadata returns the metadata only when its validation reports no
\* errors, and raises a configuration error of code 500 when it reports any;
\* a call that got its settings generates the metadata once and validates it
\* once, after generating it (a call refused for missing configuration does
\* neither).
C9_MetadataSelfValidates ==
    \A t \in Tasks :
        (pc[t] = "done" /\ op[t] = "get_metadata") =>
            LET generated == Count(trace[t], "settings.get_sp_metadata")
                validated == Count(trace[t], "settings.validate_metadata")
                built == loc[t].settings.kind = "return"
            IN /\ res[t].kind = "return" =>
                      /\ built
                      /\ loc[t].errors = <<>>
                      /\ res[t].value = loc[t].metadata
               /\ (built /\ loc[t].errors # <<>>) =>
                      /\ res[t].kind = "raise"
                      /\ res[t].error.exc = "ProxyException"
                      /\ res[t].error.param = "saml_metadata"
                      /\ res[t].error.code = 500
               /\ generated = (IF built THEN 1 ELSE 0)
               /\ validated = generated
               /\ built => First(trace[t], "settings.get_sp_metadata")
                               < First(trace[t], "settings.validate_metadata")

\* Validation reported two errors and the call raised, naming both.
C9_Witness ==
    \E t \in Tasks :
        /\ pc[t] = "done"
        /\ op[t] = "get_metadata"
        /\ loc[t].settings.kind = "return"
        /\ Len(loc[t].errors) = 2
        /\ res[t].kind = "raise"
        /\ res[t].error.message =
               "SAML metadata validation failed: "
                   \o "noEntityDescriptor_xml, onlySPSSODescriptor_allowed_xml"

----------------------------------------------------------------------------
(* Properties of the configuration *)

\* C10 (as stated): the configuration every operation uses is the one of
\* process start: the settings a call built, the attribute names it read and
\* the answer of should_use_saml_handler are those of the startup environment.
C10_ConfigurationLoadedOnce ==
    \A t \in Tasks :
        /\ "settings" \in DOMAIN loc[t] => loc[t].settings = GetSamlSettings(env0)
        /\ "names" \in DOMAIN loc[t] => loc[t].names = AttributeNames(env0)
        /\ (pc[t] = "done" /\ op[t] = "should_use_saml_handler") =>
               res[t] = Return(ShouldUseSamlHandler(env0))

\* C10 (amended): no configuration is kept; every operation reads the
\* environment anew, as it is at the moment of the read: the settings when
\* get_login_url, get_metadata or (after the form has arrived)
\* process_saml_response builds them, the attribute names when
\* process_saml_response maps an accepted response, the three IdP variables
\* when should_use_saml_handler runs.  A change made before a read is observed.
C10_ReadsEnvironmentOfTheMoment ==
    [][\A t \in Tasks :
          /\ ("settings" \notin DOMAIN loc[t] /\ "settings" \in DOMAIN loc'[t]) =>
                 loc'[t].settings = GetSamlSettings(env)
          /\ ("names" \notin DOMAIN loc[t] /\ "names" \in DOMAIN loc'[t]) =>
                 loc'[t].names = AttributeNames(env)
          /\ (pc[t] = "idle" /\ op'[t] = "should_use_saml_handler") =>
                 res'[t] = Return(ShouldUseSamlHandler(env))]_vars

\* A call of process_saml_response built its settings from the startup
\* environment and then read attribute names that were set after startup.
C10_Witness ==
    \E t \in Tasks :
        /\ pc[t] = "done"
        /\ "names" \in DOMAIN loc[t]
        /\ loc[t].settings = GetSamlSettings(env0)
        /\ loc[t].names # AttributeNames(env0)
        /\ loc[t].names = AttributeNames(env)

----------------------------------------------------------------------------
(* Properties of the defaults and of the enablement check *)

EmailAddressUrn == "urn:oasis:names:tc:SAML:1.1:nameid-format:emailAddress"
RsaSha256 == "http://www.w3.org/2001/04/xmldsig-more#rsa-sha256"
Sha256 == "http://www.w3.org/2001/04/xmlenc#sha256"

\* C12: in the settings returned, the NameID format is the email-address URN
\* when SAML_NAME_ID_FORMAT is unset, the assertion-consumer-service URL is
\* PROXY_BASE_URL followed by /sso/saml/acs when SAML_ACS_PATH is unset, and
\* the signature and digest algorithms are always RSA-SHA256 and SHA-256.
C12_Defaults ==
    (SettingsApplied /\ fout.kind = "return") =>
        /\ env["SAML_NAME_ID_FORMAT"] = None =>
               fout.value.sp.NameIDFormat = EmailAddressUrn
        /\ env["SAML_ACS_PATH"] = None =>
               fout.value.sp.assertionConsumerService.url
                   = env["PROXY_BASE_URL"][1] \o "/sso/saml/acs"
        /\ fout.value.security.signatureAlgorithm = RsaSha256
        /\ fout.value.security.digestAlgorithm = Sha256

\* Settings were built with both optional variables unset, and others set.
C12_Witness ==
    /\ SettingsApplied
    /\ fout.kind = "return"
    /\ env["SAML_NAME_ID_FORMAT"] = None
    /\ env["SAML_ACS_PATH"] = None
    /\ env["SAML_ENTITY_ID"] # None
    /\ fout.value.sp.NameIDFormat = EmailAddressUrn
    /\ fout.value.sp.assertionConsumerService.url = "https://proxy.example.com/sso/saml/acs"

\* Task t has finished a call of should_use_saml_handler.
EnablementChecked(t) == pc[t] = "done" /\ op[t] = "should_use_saml_handler"

\* C13: should_use_saml_handler returns True exactly when SAML_IDP_ENTITY_ID,
\* SAML_IDP_SSO_URL and SAML_IDP_X509_CERT are all set and non-empty, whatever
\* the other variables (PROXY_BASE_URL among them) hold.
C13_EnabledIffThreeIdpValues ==
    \A t \in Tasks :
        EnablementChecked(t) =>
            /\ res[t].kind = "return"
            /\ res[t].value =
                   (\A v \in {"SAML_IDP_ENTITY_ID", "SAML_IDP_SSO_URL", "SAML_IDP_X509_CERT"} :
                       env[v] # None /\ env[v] # Some(""))

\* The answer is True although PROXY_BASE_URL is unset.
C13_Witness ==
    \E t \in Tasks :
        /\ EnablementChecked(t)
        /\ res[t].value = TRUE
        /\ env["PROXY_BASE_URL"] = None

\* C15: in an environment where should_use_saml_handler is True,
\* _get_saml_settings either succeeds or fails with the error that names
\* PROXY_BASE_URL; and where _get_saml_settings succeeds,
\* should_use_saml_handler is True.
C15_EnablementConsistentWithSettings ==
    \A t \in Tasks :
        (EnablementChecked(t) /\ SettingsApplied) =>
            /\ res[t].value = TRUE =>
                   \/ fout.kind = "return"
                   \/ /\ fout.kind = "raise"
                      /\ fout.error.param = "PROXY_BASE_URL"
                      /\ fout.error.message
                             = "PROXY_BASE_URL not set. Required for SAML SSO redirects"
            /\ fout.kind = "return" => res[t].value = TRUE

\* The handler is enabled and building the settings fails, for PROXY_BASE_URL.
C15_Witness ==
    \E t \in Tasks :
        /\ EnablementChecked(t)
        /\ SettingsApplied
        /\ res[t].value = TRUE
        /\ fout.kind = "raise"
        /\ fout.error.param = "PROXY_BASE_URL"

----------------------------------------------------------------------------
(* Properties of the calls taken together *)

\* Task t has finished a call of process_saml_response.
AcsFinished(t) == pc[t] = "done" /\ op[t] = "process_saml_response"

\* C11: under an unchanged environment the outcome of process_saml_response
\* depends on the call's own request alone: two calls given the same posted
\* form get the same report from the library and end alike, whatever calls
\* (login, metadata, other responses) came before or ran in between, and a
\* call that has ended leaves nothing behind.
C11_OutcomeDependsOnRequestOnly ==
    \A t, u \in Tasks :
        /\ (changes = 0 /\ Processed(t) /\ Processed(u)
              /\ loc[t].form = loc[u].form) =>
               loc[t].auth = loc[u].auth
        /\ (changes = 0 /\ AcsFinished(t) /\ AcsFinished(u)
              /\ loc[t].form = loc[u].form) =>
               res[t] = res[u]
        /\ pc[t] = "idle" =>
               /\ op[t] = "none"
               /\ loc[t] = NoLocals
               /\ res[t] = NoOutcome
               /\ trace[t] = <<>>

\* The same accepted response was processed twice and both calls returned
\* the same identity.
C11_Witness ==
    \E t, u \in Tasks :
        /\ t # u
        /\ changes = 0
        /\ AcsFinished(t)
        /\ AcsFinished(u)
        /\ loc[t].form = loc[u].form
        /\ res[t].kind = "return"
        /\ res[u] = res[t]

\* Task t has finished a call that was refused for missing configuration.
RefusedForConfiguration(t) ==
    /\ pc[t] = "done"
    /\ op[t] \in {"get_login_url", "process_saml_response", "get_metadata"}
    /\ loc[t].settings.kind = "raise"

\* C14: in get_login_url, process_saml_response and get_metadata, a call
\* refused for a missing required value raises the configuration error
\* before the posted form body is read and before any SAML library object is
\* constructed or invoked.
C14_ConfigurationErrorFirst ==
    \A t \in Tasks :
        RefusedForConfiguration(t) =>
            /\ res[t] = loc[t].settings
            /\ \A i \in 1..Len(trace[t]) :
                   trace[t][i] \in {"_prepare_request_from_fastapi", "_get_saml_settings"}

====
